---- MODULE Spec2Model ----
(***************************************************************************)
(* Model of the inline-object scanner of orgize, src/objects/mod.rs:       *)
(* `parse` (the scan loop and per-byte dispatcher) and `parse_text_markup` *)
(* (the markup-start dispatcher).                                          *)
(*                                                                         *)
(* A &str is a sequence of bytes; a byte is a one-character string, apart  *)
(* from the two bytes of one two-byte UTF-8 character (U1, U2).  Positions *)
(* are 0-based as in the source; Options are sequences: None is <<>> and   *)
(* Some(x) is <<x>>.                                                       *)
(***************************************************************************)
EXTENDS Integers, Sequences, FiniteSets, TLC

VARIABLES src, pos, pc, result, exit, calls

vars == <<src, pos, pc, result, exit, calls>>

-----------------------------------------------------------------------------
(* Bounds of the checked input space.                                      *)

\* inputs built from at most MaxTokens tokens of AllTokens
MaxTokens == 3
\* inputs built from at most MaxCore tokens of CoreTokens
MaxCore == 5
\* by how many bytes an external recognizer may over-report its length
Overrun == 1
\* the same two input bounds for the runs checked under fairness
MaxFairTokens == 2
MaxFairCore == 4

-----------------------------------------------------------------------------
(* Option values and slices.                                               *)

None == <<>>
Some(x) == <<x>>
IsSome(o) == o # <<>>
Unwrap(o) == o[1]

\* s[a..b] of the source: bytes a, ..., b-1
Slice(s, a, b) == SubSeq(s, a + 1, b)
\* s[a..]
From(s, a) == SubSeq(s, a + 1, Len(s))
\* bytes[i]
At(s, i) == s[i + 1]

\* the lead and the continuation byte of a two-byte character
U1 == "C3"
U2 == "A9"

\* str slicing panics when an end of the range is not on a char boundary
IsCharBoundary(s, i) ==
    \/ i = 0
    \/ i = Len(s)
    \/ i > 0 /\ i < Len(s) /\ At(s, i) # U2

\* &s[a..b] is within bounds and on char boundaries
SliceOk(s, a, b) ==
    /\ 0 <= a /\ a <= b /\ b <= Len(s)
    /\ IsCharBoundary(s, a) /\ IsCharBoundary(s, b)

\* s.starts_with(p)
StartsWith(s, p) == Len(s) >= Len(p) /\ SubSeq(s, 1, Len(p)) = p

-----------------------------------------------------------------------------
(* The delimiter classifier.                                               *)

\* bs with a markup opener among the trigger bytes
bs_WithMarker == {"@", " ", "\"", "(", "\n", "{", "<", "[", "*"}

\* bytes!(b'@', b' ', b'"', b'(', b'\n', b'{', b'<', b'[')
bs == {"@", " ", "\"", "(", "\n", "{", "<", "["}

\* bs.find(s): the offset of the first byte of s that is in bs
Find(s) ==
    LET hits == {i \in 0..(Len(s) - 1) : At(s, i) \in bs}
    IN  IF hits = {} THEN None
        ELSE Some(CHOOSE i \in hits : \A j \in hits : i <= j)

-----------------------------------------------------------------------------
(* Objects.  The fields of the objects built by the external recognizers   *)
(* are views the scanner never inspects; only the variant is kept.         *)

Text(t) == [tag |-> "Text", text |-> t]
Span(tag, end) == [tag |-> tag, end |-> end]
Literal(tag, t) == [tag |-> tag, text |-> t]
Opaque(tag) == [tag |-> tag]

SpanTags == {"Bold", "Strike", "Italic", "Underline"}
LiteralTags == {"Verbatim", "Code"}
MarkupTags == SpanTags \cup LiteralTags \cup {"InlineSrc", "InlineCall"}

\* the marker byte of each delimited variant
MarkerOf(tag) ==
    CASE tag = "Bold" -> "*"
      [] tag = "Strike" -> "+"
      [] tag = "Italic" -> "/"
      [] tag = "Underline" -> "_"
      [] tag = "Verbatim" -> "="
      [] tag = "Code" -> "~"

-----------------------------------------------------------------------------
(* External recognizers.  Their sources are not part of the scanner; each  *)
(* is modelled by its contract: on a slice it either rejects or accepts    *)
(* with a consumed length.  A recognizer's answer is a set of possible     *)
(* answers.                                                                *)

External(s) == {None} \cup {Some(n) : n \in 1..(Len(s) + Overrun)}

snippet_parse(s) == External(s)
macros_parse(s) == External(s)
radio_target_parse(s) == External(s)
target_parse(s) == External(s)
fn_ref_parse(s) == External(s)
link_parse(s) == External(s)
cookie_parse(s) == External(s)
inline_src_parse(s) == External(s)
inline_call_parse(s) == External(s)

\* u8::is_ascii_whitespace on the bytes of the model
Whitespace == {" ", "\n"}

\* a blank line (two newlines in a row) within bytes 1..end-1 of s
BlankLine(s, end) ==
    \E i \in 1..(end - 2) : At(s, i) = "\n" /\ At(s, i + 1) = "\n"

\* a valid closing occurrence of marker at offset end of s
ValidCloser(s, marker, end) ==
    /\ At(s, end) = marker
    /\ At(s, 1) \notin Whitespace
    /\ At(s, end - 1) \notin Whitespace
    /\ ~BlankLine(s, end)

\* emphasis::parse(s, marker): the offset in s of the nearest valid closer
emphasis_parse(s, marker) ==
    LET ends == {e \in 1..(Len(s) - 1) : ValidCloser(s, marker, e)}
    IN  IF ends = {} THEN None
        ELSE Some(CHOOSE e \in ends : \A f \in ends : e <= f)

-----------------------------------------------------------------------------
(* Outcomes of a piece of the dispatcher: the recognizer calls it made,    *)
(* whether it panicked, and the match it found (object, consumed length,   *)
(* start relative to the slice it was given).                              *)

Call(rec, s, r) == [rec |-> rec, at |-> 0, n |-> Len(s), res |-> r]
Outcome(cs, hit) == [calls |-> cs, panic |-> FALSE, hit |-> hit]
Miss == Outcome(<<>>, None)
Panic == [calls |-> <<>>, panic |-> TRUE, hit |-> None]
Hit(obj, off) == [obj |-> obj, off |-> off, p |-> 0]

\* the outcome o of a callee that was handed the slice starting at base
Shift(o, base) ==
    [calls |-> [i \in DOMAIN o.calls |-> [o.calls[i] EXCEPT !.at = @ + base]],
     panic |-> o.panic,
     hit |-> IF IsSome(o.hit)
             THEN Some([Unwrap(o.hit) EXCEPT !.p = @ + base])
             ELSE None]

\* the outcomes O of a callee that was handed the slice starting at base
ShiftAll(O, base) == {Shift(o, base) : o \in O}

\* A, and B after it when A neither matched nor panicked
Seqn(A, B) ==
    UNION {IF a.panic \/ IsSome(a.hit)
           THEN {a}
           ELSE {[b EXCEPT !.calls = a.calls \o @] : b \in B} : a \in A}

\* if let Some((.., off)) = rec::parse(s) { <match Opaque(tag), off> }
Try(rec, tag, answers, s) ==
    {Outcome(<<Call(rec, s, r)>>,
             IF IsSome(r) THEN Some(Hit(Opaque(tag), Unwrap(r))) ELSE None)
        : r \in answers}

-----------------------------------------------------------------------------
(* parse_text_markup: the markup-start dispatcher.                         *)

\* MarkupSpan recording the offset past the closer instead of the closer's
MarkupSpan_PastCloser(s, marker, tag) ==
    LET r == emphasis_parse(s, marker)
    IN  {Outcome(<<Call("emphasis", s, r)>>,
                 IF IsSome(r) THEN Some(Hit(Span(tag, Unwrap(r) + 1), 1)) ELSE None)}

\* emphasis::parse(src, m).map(|end| (Object::<tag> { end }, 1))
MarkupSpan(s, marker, tag) ==
    LET r == emphasis_parse(s, marker)
    IN  {Outcome(<<Call("emphasis", s, r)>>,
                 IF IsSome(r) THEN Some(Hit(Span(tag, Unwrap(r)), 1)) ELSE None)}

\* MarkupLiteral reporting one byte more than the delimited span
MarkupLiteral_Over(s, marker, tag) ==
    LET r == emphasis_parse(s, marker)
        end == Unwrap(r)
    IN  IF ~IsSome(r) THEN {Outcome(<<Call("emphasis", s, r)>>, None)}
        ELSE IF ~SliceOk(s, 1, end)
        THEN {[Panic EXCEPT !.calls = <<Call("emphasis", s, r)>>]}
        ELSE {Outcome(<<Call("emphasis", s, r)>>,
                      Some(Hit(Literal(tag, Slice(s, 1, end)), end + 2)))}

\* MarkupLiteral reporting the span without its closer
MarkupLiteral_NoCloser(s, marker, tag) ==
    LET r == emphasis_parse(s, marker)
        end == Unwrap(r)
    IN  IF ~IsSome(r) THEN {Outcome(<<Call("emphasis", s, r)>>, None)}
        ELSE IF ~SliceOk(s, 1, end)
        THEN {[Panic EXCEPT !.calls = <<Call("emphasis", s, r)>>]}
        ELSE {Outcome(<<Call("emphasis", s, r)>>,
                      Some(Hit(Literal(tag, Slice(s, 1, end)), end)))}

\* emphasis::parse(src, m).map(|end| (Object::<tag>(&src[1..end]), end + 1))
MarkupLiteral(s, marker, tag) ==
    LET r == emphasis_parse(s, marker)
        end == Unwrap(r)
    IN  IF ~IsSome(r) THEN {Outcome(<<Call("emphasis", s, r)>>, None)}
        ELSE IF ~SliceOk(s, 1, end)
        THEN {[Panic EXCEPT !.calls = <<Call("emphasis", s, r)>>]}
        ELSE {Outcome(<<Call("emphasis", s, r)>>,
                      Some(Hit(Literal(tag, Slice(s, 1, end)), end + 1)))}

parse_text_markup(s) ==
    IF Len(s) = 0 THEN {Panic}
    ELSE LET b == At(s, 0)
         IN  CASE b = "*" -> MarkupSpan(s, "*", "Bold")
               [] b = "+" -> MarkupSpan(s, "+", "Strike")
               [] b = "/" -> MarkupSpan(s, "/", "Italic")
               [] b = "_" -> MarkupSpan(s, "_", "Underline")
               [] b = "=" -> MarkupLiteral(s, "=", "Verbatim")
               [] b = "~" -> MarkupLiteral(s, "~", "Code")
               [] b = "s" /\ StartsWith(s, <<"s", "r", "c", "_">>) ->
                    Try("inline_src", "InlineSrc", inline_src_parse(s), s)
               [] b = "c" /\ StartsWith(s, <<"c", "a", "l", "l", "_">>) ->
                    Try("inline_call", "InlineCall", inline_call_parse(s), s)
               [] OTHER -> {Miss}

-----------------------------------------------------------------------------
(* parse: the arms of the per-byte dispatcher.  Each takes the whole input *)
(* s and the candidate position p, and reports starts relative to s.       *)

\* b'@' if bytes[pos + 1] == b'@'
SnippetArm(s, p) ==
    ShiftAll(Try("snippet", "Snippet", snippet_parse(From(s, p)), From(s, p)), p)

\* b'{' if bytes[pos + 1] == b'{' && bytes[pos + 2] == b'{'
MacrosArm(s, p) ==
    ShiftAll(Try("macros", "Macros", macros_parse(From(s, p)), From(s, p)), p)

\* b'<' if bytes[pos + 1] == b'<'
TargetArm(s, p) ==
    IF p + 2 >= Len(s) THEN {Panic}
    ELSE IF At(s, p + 2) = "<"
    THEN ShiftAll(Try("radio_target", "RadioTarget",
                   radio_target_parse(From(s, p)), From(s, p)), p)
    ELSE IF At(s, p + 2) # "\n"
    THEN ShiftAll(Try("target", "Target", target_parse(From(s, p)), From(s, p)), p)
    ELSE {Miss}

\* BracketArm trying the cookie recognizer first
BracketArm_CookieFirst(s, p) ==
    LET tail == From(s, p)
        fn == IF ~SliceOk(tail, 1, Len(tail)) THEN {Panic}
              ELSE IF StartsWith(From(tail, 1), <<"f", "n", ":">>)
              THEN Try("fn_ref", "FnRef", fn_ref_parse(tail), tail)
              ELSE {Miss}
        lk == IF p + 1 >= Len(s) THEN {Panic}
              ELSE IF At(s, p + 1) = "["
              THEN Try("link", "Link", link_parse(tail), tail)
              ELSE {Miss}
        ck == Try("cookie", "Cookie", cookie_parse(tail), tail)
    IN  ShiftAll(Seqn(ck, Seqn(fn, lk)), p)

\* b'[': footnote reference, then link, then cookie
BracketArm(s, p) ==
    LET tail == From(s, p)
        fn == IF ~SliceOk(tail, 1, Len(tail)) THEN {Panic}
              ELSE IF StartsWith(From(tail, 1), <<"f", "n", ":">>)
              THEN Try("fn_ref", "FnRef", fn_ref_parse(tail), tail)
              ELSE {Miss}
        lk == IF p + 1 >= Len(s) THEN {Panic}
              ELSE IF At(s, p + 1) = "["
              THEN Try("link", "Link", link_parse(tail), tail)
              ELSE {Miss}
        ck == Try("cookie", "Cookie", cookie_parse(tail), tail)
    IN  ShiftAll(Seqn(fn, Seqn(lk, ck)), p)

\* the bytes after which a markup opener is tried on the next byte
ContextBytes == {"{", " ", "\"", ",", "(", "\n"}

\* b'{' | b' ' | b'"' | b',' | b'(' | b'\n': parse_text_markup(&tail[1..])
ContextArm(s, p) ==
    LET tail == From(s, p)
    IN  IF ~SliceOk(tail, 1, Len(tail)) THEN {Panic}
        ELSE ShiftAll(parse_text_markup(From(tail, 1)), p + 1)

\* _ => parse_text_markup(tail)
DefaultArm(s, p) == ShiftAll(parse_text_markup(From(s, p)), p)

\* the guard of a match arm reads bytes[i]
Guard(s, i, b) == i < Len(s) /\ At(s, i) = b
\* ... and panics when i is out of bounds
GuardPanics(s, i) == i >= Len(s)

\* match bytes[pos] { ... }
dispatch(s, p) ==
    LET b == At(s, p)
        rest == IF b = "[" THEN BracketArm(s, p)
                ELSE IF b \in ContextBytes THEN ContextArm(s, p)
                ELSE DefaultArm(s, p)
    IN  IF b = "@"
        THEN IF GuardPanics(s, p + 1) THEN {Panic}
             ELSE IF Guard(s, p + 1, "@") THEN SnippetArm(s, p)
             ELSE rest
        ELSE IF b = "{"
        THEN IF GuardPanics(s, p + 1) THEN {Panic}
             ELSE IF ~Guard(s, p + 1, "{") THEN rest
             ELSE IF GuardPanics(s, p + 2) THEN {Panic}
             ELSE IF Guard(s, p + 2, "{") THEN MacrosArm(s, p)
             ELSE rest
        ELSE IF b = "<"
        THEN IF GuardPanics(s, p + 1) THEN {Panic}
             ELSE IF Guard(s, p + 1, "<") THEN TargetArm(s, p)
             ELSE rest
        ELSE rest

\* TooShort with the threshold off by one, and off by two
TooShort_Two(s, p) == Len(s) - p < 2
TooShort_One(s, p) == Len(s) - p < 1

\* src.len() - pos < 3
TooShort(s, p) == Len(s) - p < 3

\* brk! without the case of a match at the start of the input
brk_NoStartCase(s, obj, off, p) ==
    <<Text(Slice(s, 0, p)), p, Some(<<obj, off>>)>>

\* the brk! macro: package the match found at absolute position p
brk(s, obj, off, p) ==
    IF p = 0
    THEN <<obj, off, None>>
    ELSE <<Text(Slice(s, 0, p)), p, Some(<<obj, off>>)>>

\* &src[0..p] in brk! is a valid slice
BrkOk(s, p) == p = 0 \/ SliceOk(s, 0, p)

\* (Object::Text(src), src.len(), None)
WholeText(s) == <<Text(s), Len(s), None>>

\* the loop without its pos += 1
Advance_Stay(p) == p

\* pos += 1
Advance(p) == p + 1

-----------------------------------------------------------------------------
(* The scan as a state machine.  pc is "head" at the loop condition,       *)
(* "body" inside the loop with pos on a candidate position, "done" after a *)
(* return and "panic" after a failed index or slice.  exit names the       *)
(* return statement taken and calls is the history of recognizer calls.    *)

\* the token sets inputs are built from
AllTokens ==
    {<<"@">>, <<" ">>, <<"\"">>, <<"(">>, <<"\n">>, <<"{">>, <<"<">>, <<"[">>,
     <<",">>, <<"*">>, <<"+">>, <<"/">>, <<"_">>, <<"=">>, <<"~">>,
     <<"f", "n", ":">>, <<"s", "r", "c", "_">>, <<"c", "a", "l", "l", "_">>,
     <<"s">>, <<"a">>, <<U1, U2>>}
CoreTokens == {<<"a">>, <<" ">>, <<",">>, <<"\n">>, <<"=">>, <<"*">>, <<"[">>}

RECURSIVE Concat(_)
\* the bytes of a sequence of tokens
Concat(w) == IF w = <<>> THEN <<>> ELSE Concat(SubSeq(w, 1, Len(w) - 1)) \o w[Len(w)]

\* src is a concatenation of at most n tokens of T
IsWord(T, n) == \E k \in 0..n : \E w \in [1..k -> T] : src = Concat(w)

\* parse is entered with its argument; nothing has run yet
Entry ==
    /\ pos = 0
    /\ pc = "head"
    /\ result = None
    /\ exit = "none"
    /\ calls = <<>>

Init ==
    /\ IsWord(AllTokens, MaxTokens) \/ IsWord(CoreTokens, MaxCore)
    /\ Entry

InitFair ==
    /\ IsWord(AllTokens, MaxFairTokens) \/ IsWord(CoreTokens, MaxFairCore)
    /\ Entry

\* while let Some(off) = if pos == 0 { Some(0) } else { bs.find(&bytes[pos..]) }
\*   { pos += off; ...
Scan ==
    /\ pc = "head"
    /\ pos <= Len(src)
    /\ LET off == IF pos = 0 THEN Some(0) ELSE Find(From(src, pos))
       IN  /\ IsSome(off)
           /\ pos' = pos + Unwrap(off)
    /\ pc' = "body"
    /\ UNCHANGED <<src, result, exit, calls>>

\* the loop condition yields None: fall out of the loop and return Text
Exhausted ==
    /\ pc = "head"
    /\ pos <= Len(src)
    /\ pos # 0
    /\ Find(From(src, pos)) = None
    /\ result' = Some(WholeText(src))
    /\ exit' = "exhausted"
    /\ pc' = "done"
    /\ UNCHANGED <<src, pos, calls>>

\* if src.len() - pos < 3 { return (Object::Text(src), src.len(), None); }
Short ==
    /\ pc = "body"
    /\ pos <= Len(src)
    /\ TooShort(src, pos)
    /\ result' = Some(WholeText(src))
    /\ exit' = "short"
    /\ pc' = "done"
    /\ UNCHANGED <<src, pos, calls>>

\* the match on bytes[pos]: a recognizer accepts and brk! returns
Match ==
    /\ pc = "body"
    /\ pos < Len(src)
    /\ ~TooShort(src, pos)
    /\ SliceOk(src, pos, Len(src))
    /\ \E o \in dispatch(src, pos) :
          /\ ~o.panic
          /\ IsSome(o.hit)
          /\ BrkOk(src, Unwrap(o.hit).p)
          /\ calls' = calls \o o.calls
          /\ result' = Some(brk(src, Unwrap(o.hit).obj, Unwrap(o.hit).off,
                                Unwrap(o.hit).p))
    /\ exit' = "match"
    /\ pc' = "done"
    /\ UNCHANGED <<src, pos>>

\* the match on bytes[pos]: nothing accepts; pos += 1 and loop
NoMatch ==
    /\ pc = "body"
    /\ pos < Len(src)
    /\ ~TooShort(src, pos)
    /\ SliceOk(src, pos, Len(src))
    /\ \E o \in dispatch(src, pos) :
          /\ ~o.panic
          /\ ~IsSome(o.hit)
          /\ calls' = calls \o o.calls
    /\ pos' = Advance(pos)
    /\ pc' = "head"
    /\ UNCHANGED <<src, result, exit>>

\* the loop condition fails: &bytes[pos..] with pos past the end
HeadPanics == pc = "head" /\ pos > Len(src)

\* the loop body fails: an index or a slice is out of bounds
BodyPanics ==
    /\ pc = "body"
    /\ \/ pos > Len(src)
       \/ /\ pos <= Len(src)
          /\ ~TooShort(src, pos)
          /\ \/ pos >= Len(src)
             \/ ~SliceOk(src, pos, Len(src))
             \/ \E o \in dispatch(src, pos) :
                   \/ o.panic
                   \/ IsSome(o.hit) /\ ~BrkOk(src, Unwrap(o.hit).p)

Next == Scan \/ Exhausted \/ Short \/ Match \/ NoMatch

Spec == Init /\ [][Next]_vars

\* parse is straight-line sequential code: a step that can be taken is taken
FairSpec == InitFair /\ [][Next]_vars /\ WF_vars(Next)

-----------------------------------------------------------------------------
(* Reading the result and the call history.                                *)

Done == pc = "done"
Res == Unwrap(result)
HasTrailing == IsSome(Res[3])
\* the object parse reports, where it starts and the length reported for it
Reported == IF HasTrailing THEN Unwrap(Res[3])[1] ELSE Res[1]
ReportedAt == IF HasTrailing THEN Res[2] ELSE 0
ReportedLen == IF HasTrailing THEN Unwrap(Res[3])[2] ELSE Res[2]

CallIdx == DOMAIN calls
Accepted == {i \in CallIdx : IsSome(calls[i].res)}

\* the variant an accepting recognizer call produces
TagOfCall(c) ==
    CASE c.rec = "snippet" -> "Snippet"
      [] c.rec = "macros" -> "Macros"
      [] c.rec = "radio_target" -> "RadioTarget"
      [] c.rec = "target" -> "Target"
      [] c.rec = "fn_ref" -> "FnRef"
      [] c.rec = "link" -> "Link"
      [] c.rec = "cookie" -> "Cookie"
      [] c.rec = "inline_src" -> "InlineSrc"
      [] c.rec = "inline_call" -> "InlineCall"
      [] c.rec = "emphasis" ->
           CHOOSE tag \in SpanTags \cup LiteralTags : MarkerOf(tag) = At(src, c.at)

\* the length reported upward for an accepting recognizer call
ConsumedOfCall(c) ==
    IF c.rec # "emphasis" THEN Unwrap(c.res)
    ELSE IF TagOfCall(c) \in SpanTags THEN 1
    ELSE Unwrap(c.res) + 1

-----------------------------------------------------------------------------
\* C1: the result has one of three shapes, fixed by the first recognizer
\* call that accepts: started at p with consumed length n, the result is
\* (object, n, None) when p = 0 and (Text(input[0..p]), p, Some((object, n)))
\* when p > 0; when no call accepts it is (Text(input), len(input), None).
C1_ThreeShapes ==
    Done =>
      IF Accepted = {}
      THEN Res = WholeText(src)
      ELSE /\ Accepted = {Len(calls)}
           /\ LET c == calls[Len(calls)]
              IN  /\ Reported.tag = TagOfCall(c)
                  /\ IF c.at = 0
                     THEN /\ Res[1] = Reported
                          /\ Res[2] = ConsumedOfCall(c)
                          /\ Res[3] = None
                     ELSE /\ Res[1] = Text(Slice(src, 0, c.at))
                          /\ Res[2] = c.at
                          /\ HasTrailing
                          /\ ReportedLen = ConsumedOfCall(c)

\* a match after a non-empty Text prefix
C1_Witness ==
    /\ Done
    /\ Accepted # {}
    /\ calls[Len(calls)].at > 1
    /\ Len(calls) > 1

-----------------------------------------------------------------------------
\* every external recognizer call reported a length within its slice
WellBehaved ==
    \A i \in Accepted : calls[i].rec # "emphasis" => Unwrap(calls[i].res) <= calls[i].n

\* C2: when no external recognizer over-reports its consumed length, the
\* lengths of the result stay within the input: the first length is at most
\* len(input), and prefix length plus trailing length is at most len(input).
C2_LengthsWithinInput ==
    (Done /\ WellBehaved) =>
      /\ Res[2] <= Len(src)
      /\ HasTrailing => Res[2] + ReportedLen <= Len(src)

\* a literal span after a prefix that ends exactly at the end of the input
C2_Witness ==
    /\ Done
    /\ WellBehaved
    /\ HasTrailing
    /\ Reported.tag \in LiteralTags
    /\ Res[2] + ReportedLen = Len(src)

-----------------------------------------------------------------------------
\* the cursor never moves back, and moves forward across a loop body that
\* does not return
CursorAdvances ==
    /\ (pc = "head" /\ pc' = "body") => pos' >= pos
    /\ (pc = "body" /\ pc' = "head") => pos' > pos
    /\ pc = "done" => (pc' = "done" /\ pos' = pos)

\* how the loop ended agrees with the return statement taken
ExitReason ==
    Done =>
      /\ exit \in {"match", "short", "exhausted"}
      /\ exit = "match" <=> Accepted # {}
      /\ exit = "short" => (Len(src) - pos < 3 /\ (pos = 0 \/ At(src, pos) \in bs))
      /\ exit = "exhausted" =>
           (pos > 0 /\ \A i \in pos..(Len(src) - 1) : At(src, i) \notin bs)

\* C3: parse terminates: pos strictly increases over every loop iteration
\* that does not return, and the loop ends by a match, by the short-input
\* return, or by the classifier finding no further trigger byte.
C3_Terminates ==
    /\ [][CursorAdvances]_vars
    /\ []ExitReason
    /\ <>Done

\* the loop went round at least twice before it ended without a match
C3_Witness ==
    /\ Done
    /\ exit = "exhausted"
    /\ Len(calls) >= 2
    /\ calls[1].at < calls[Len(calls)].at

-----------------------------------------------------------------------------
\* C4: a reported Bold, Strike, Italic or Underline starting at p with field
\* end has consumed length 1, end > 0, the marker byte at input[p] and the
\* same marker byte at input[p + end].
C4_SpanEnd ==
    (Done /\ Reported.tag \in SpanTags) =>
      LET p == ReportedAt
          end == Reported.end
          m == MarkerOf(Reported.tag)
      IN  /\ ReportedLen = 1
          /\ end > 0
          /\ At(src, p) = m
          /\ p + end < Len(src)
          /\ At(src, p + end) = m

\* an emphasis span with a body, reported after a Text prefix
C4_Witness ==
    /\ Done
    /\ Reported.tag \in SpanTags
    /\ ReportedAt > 0
    /\ Reported.end > 1

-----------------------------------------------------------------------------
\* C5: a reported Verbatim(t) or Code(t) starting at p with consumed length
\* n has n = len(t) + 2, t = input[p+1 .. p+n-1], and the marker byte at
\* both input[p] and input[p+n-1].
C5_LiteralSpan ==
    (Done /\ Reported.tag \in LiteralTags) =>
      LET p == ReportedAt
          n == ReportedLen
          m == MarkerOf(Reported.tag)
      IN  /\ n = Len(Reported.text) + 2
          /\ p + n <= Len(src)
          /\ Reported.text = Slice(src, p + 1, p + n - 1)
          /\ At(src, p) = m
          /\ At(src, p + n - 1) = m

\* a literal span with a non-empty text, reported after a Text prefix
C5_Witness ==
    /\ Done
    /\ Reported.tag \in LiteralTags
    /\ ReportedAt > 0
    /\ Len(Reported.text) > 0

-----------------------------------------------------------------------------
BracketRecs == {"fn_ref", "link", "cookie"}
AtBracket(c, q) == c.at = q /\ c.rec \in BracketRecs

\* the recognizer calls made on the slice starting at q, in call order
BracketCalls(q) == SelectSeq(calls, LAMBDA c : AtBracket(c, q))

\* the recognizers due at a '[' at q, in priority order
BracketOrder(q) ==
    (IF StartsWith(From(src, q + 1), <<"f", "n", ":">>) THEN <<"fn_ref">> ELSE <<>>)
    \o (IF At(src, q + 1) = "[" THEN <<"link">> ELSE <<>>)
    \o <<"cookie">>

\* the '[' candidates the dispatcher has been through
BracketsTried ==
    {q \in 0..(Len(src) - 3) :
        /\ At(src, q) = "["
        /\ \/ q < pos
           \/ q = pos /\ Done /\ exit = "match"}

\* C6: at a '[' candidate the recognizers are tried in the order footnote
\* reference (after "[fn:"), link (after "[["), cookie: each is called only
\* after the ones before it rejected, a later one is still called when an
\* earlier one rejects, and the result carries the object of the first one
\* that accepts.
C6_BracketPriority ==
    \A q \in BracketsTried :
      LET made == BracketCalls(q)
          due == BracketOrder(q)
          k == Len(made)
      IN  /\ k >= 1
          /\ k <= Len(due)
          /\ \A i \in 1..k : made[i].rec = due[i]
          /\ \A i \in 1..(k - 1) : made[i].res = None
          /\ made[k].res = None => k = Len(due)
          /\ IsSome(made[k].res) =>
               /\ Done
               /\ ReportedAt = q
               /\ Reported.tag = TagOfCall(made[k])

\* link and cookie reject at the first '[', then the footnote reference at
\* the second one is accepted although the cookie recognizer was also due
C6_Witness ==
    /\ Done
    /\ Reported.tag = "FnRef"
    /\ ReportedAt > 0
    /\ \E i \in CallIdx : calls[i].rec = "cookie" /\ calls[i].res = None
    /\ \E i \in CallIdx : calls[i].rec = "link" /\ calls[i].res = None

-----------------------------------------------------------------------------
\* at a candidate position with fewer than 3 bytes left the scan returns the
\* whole input as Text at once, with no recognizer call
ShortReturns ==
    (pc = "body" /\ Len(src) - pos < 3) =>
      /\ pc' = "done"
      /\ result' = Some(<<Text(src), Len(src), None>>)
      /\ calls' = calls

\* no recognizer is handed fewer than 2 bytes, and a short input is all Text
ShortInputs ==
    /\ \A i \in CallIdx : calls[i].n >= 2 /\ Len(src) - calls[i].at >= 2
    /\ (Done /\ Len(src) < 3) =>
          /\ Res = <<Text(src), Len(src), None>>
          /\ calls = <<>>

\* C7: at a candidate position with fewer than 3 bytes left parse returns
\* (Text(input), len(input), None) without calling a recognizer; an input
\* shorter than 3 bytes yields Text of the whole input; no recognizer is
\* called on a slice shorter than 2 bytes.
C7_ShortCircuit ==
    /\ [][ShortReturns]_vars
    /\ []ShortInputs

\* the short return taken at a trigger byte after recognizers had been tried
C7_Witness ==
    /\ Done
    /\ exit = "short"
    /\ pos > 0
    /\ Len(src) - pos = 2
    /\ calls # <<>>

-----------------------------------------------------------------------------
\* C8: no index or slice of parse or parse_text_markup is out of bounds in
\* any reachable state of the loop, and a finished scan has a result.
C8_NeverFails ==
    /\ ~HeadPanics
    /\ ~BodyPanics
    /\ Done => IsSome(result)

\* the dispatcher reads bytes[pos + 2], the last byte of the input
C8_Witness ==
    /\ pc = "body"
    /\ Len(src) - pos = 3
    /\ At(src, pos) = "<"
    /\ At(src, pos + 1) = "<"

-----------------------------------------------------------------------------
\* the context bytes as the dispatcher's arm lists them
ContextByteList == {"{", " ", "\"", ",", "(", "\n"}

\* the markup-start dispatcher accepts on s, whatever the recognizers answer
MarkupAccepts(s) ==
    /\ Len(s) > 0
    /\ \A o \in parse_text_markup(s) : ~o.panic /\ IsSome(o.hit)

\* C9: for every q > 0 where input[q] is a context byte, the markup-start
\* dispatcher accepts on input[q+1..] and no earlier candidate accepts,
\* parse reports that markup object after the Text prefix input[0..q+1].
C9_ContextBytesAreStops ==
    Done =>
      \A q \in 1..(Len(src) - 1) :
        (/\ At(src, q) \in ContextByteList
         /\ MarkupAccepts(From(src, q + 1))
         /\ \A i \in Accepted : calls[i].at > q)
        => /\ HasTrailing
           /\ Res[1] = Text(Slice(src, 0, q + 1))
           /\ Res[2] = q + 1
           /\ Reported.tag \in MarkupTags

-----------------------------------------------------------------------------
\* the reported markup object starts at byte p of the input
StartsMarkup(tag, p) ==
    CASE tag = "InlineSrc" -> StartsWith(From(src, p), <<"s", "r", "c", "_">>)
      [] tag = "InlineCall" -> StartsWith(From(src, p), <<"c", "a", "l", "l", "_">>)
      [] OTHER -> At(src, p) = MarkerOf(tag)

\* C10: a markup-start object reported after a Text prefix of length p > 0
\* starts at input[p], and input[p-1], the last byte of the prefix, is a
\* context byte; a markup opener not preceded by one is never reported.
C10_MarkupAfterContext ==
    (Done /\ HasTrailing /\ Reported.tag \in MarkupTags) =>
      LET p == Res[2]
      IN  /\ p > 0
          /\ Res[1] = Text(Slice(src, 0, p))
          /\ At(src, p - 1) \in ContextByteList
          /\ StartsMarkup(Reported.tag, p)

\* a markup object reported after a prefix of more than the context byte
C10_Witness ==
    /\ Done
    /\ HasTrailing
    /\ Reported.tag \in MarkupTags
    /\ Res[2] > 1

====
